---- MODULE Spec2Model ----
(***************************************************************************)
(* Autotask MCP adapter (src/autotask_mcp.py): Transport (_make_request),  *)
(* Query Builder (_query_entity), the tool handlers and the resource        *)
(* handlers, as a state machine of one invocation at a time (a handler, or *)
(* Transport called on its own).  A handler call builds its request        *)
(* and puts it on the wire; the upstream answer (or a timeout, or a        *)
(* connection failure) arrives in a second step, in which Transport        *)
(* classifies it and the handler reshapes the result or raises.            *)
(*                                                                         *)
(* Python values: a dict is a function from key strings to values (the     *)
(* empty dict is <<>>); Optional[T] is Null or Some(v); an argument the    *)
(* caller left out is Unset and takes the Field default of its input       *)
(* model; an f-string is the sequence of its parts.                        *)
(***************************************************************************)
EXTENDS Integers, Sequences, FiniteSets, TLC

VARIABLES
    pc,        \* "idle" | "await" (one HTTP call in flight) | "done"
    op,        \* name of the handler being run
    args,      \* the caller's arguments (Unset where left out)
    sent,      \* HTTP requests issued by this invocation, in order
    response,  \* the last upstream response
    result,    \* the last Transport result
    current,   \* update_ticket: result of the preliminary GET
    ctx_log,   \* what the handler reported through ctx.error
    clock_read,\* the UTC clock as _format_date_for_api read it, if it did
    outcome    \* what the handler gave the caller

vars == <<pc, op, args, sent, response, result, current, ctx_log, clock_read, outcome>>

\* ------------------------------------------------------------ bounds
\* Remote item lists hold 0..MaxItems items.
MaxItems == 2
\* Inputs supply up to MaxSupplied of a handler's optional arguments at once.
MaxSupplied == 2
\* Field metadata lists hold 0..MaxFields entries.
MaxFields == 2

\* ------------------------------------------------------------ Python values
Null == [null |-> TRUE]
Unset == [unset |-> TRUE]
Some(v) == [v |-> v]
EmptyDict == <<>>

IsNone(o) == "null" \in DOMAIN o
IsUnset(o) == "unset" \in DOMAIN o
IsSome(o) == "v" \in DOMAIN o

\* bool(x) of an Optional[int], Optional[float], Optional[str], Optional[bool]
TruthyNum(o) == IsSome(o) /\ o.v # 0
TruthyStr(o) == IsSome(o) /\ o.v # ""
TruthyBool(o) == IsSome(o) /\ o.v

\* dict.get(k, default)
Get(d, k, default) == IF k \in DOMAIN d THEN d[k] ELSE default
\* dict.get(k) as an Optional
GetOpt(d, k) == IF k \in DOMAIN d THEN Some(d[k]) ELSE Null
\* {**d, k: v} when cond
PutIf(cond, k, v) == IF cond THEN k :> v ELSE EmptyDict

\* seq[:n] for a possibly negative n
PySliceTo(seq, n) ==
    IF n >= 0
    THEN SubSeq(seq, 1, IF n < Len(seq) THEN n ELSE Len(seq))
    ELSE SubSeq(seq, 1, IF Len(seq) + n > 0 THEN Len(seq) + n ELSE 0)

\* Field(default) of a pydantic input model
Default(o, d) == IF IsUnset(o) THEN Some(d) ELSE o

\* ------------------------------------------------------------ inputs
BoolFields == {"exclude_completed", "is_active", "is_non_billable", "show_on_invoice"}
StrFields ==
    {"title", "description", "due_date_time", "title_contains", "name_contains",
     "email_contains", "first_name", "last_name", "email", "contract_name", "name",
     "date_worked", "internal_notes", "start_date_time", "end_date_time"}

\* A non-zero value for each numeric argument, distinct per argument.
IntValue(f) ==
    CASE f = "company_id" -> 11
      [] f = "status" -> 5
      [] f = "priority" -> 3
      [] f = "assigned_resource_id" -> 14
      [] f = "queue_id" -> 15
      [] f = "assigned_resource_role_id" -> 16
      [] f = "ticket_type" -> 2
      [] f = "billing_code_id" -> 18
      [] f = "contract_id" -> 19
      [] f = "hours_to_bill" -> 4
      [] OTHER -> 7

Truthy(f) ==
    CASE f \in BoolFields -> TRUE
      [] f \in StrFields -> f
      [] OTHER -> IntValue(f)
Falsy(f) ==
    CASE f \in BoolFields -> FALSE
      [] f \in StrFields -> ""
      [] OTHER -> 0

\* The i-th way to supply argument f: its zero value, a non-zero value, and
\* (for an argument whose Field default is not None) an explicit null.
Choice(f, i, defaulted) ==
    IF i = 1 THEN Some(Falsy(f))
    ELSE IF i = 2 \/ f \notin defaulted THEN Some(Truthy(f))
    ELSE Null

\* Optional arguments F of a handler, at most MaxSupplied of them supplied.
Inputs(F, defaulted) ==
    UNION { { [f \in F |-> IF f \in S THEN Choice(f, g[f], defaulted)
                           ELSE IF f \in defaulted THEN Unset ELSE Null]
              : g \in [S -> 1..3] }
            : S \in {T \in SUBSET F : Cardinality(T) <= MaxSupplied} }

\* The calls made to each handler.
MaxResultsArgs == {Unset, Null} \cup {Some(n) : n \in (-1)..MaxItems}

SearchTicketsArgs ==
    { o @@ [max_results |-> m, ctx |-> c] :
        o \in Inputs({"company_id", "status", "priority", "assigned_resource_id",
                      "queue_id", "title_contains", "exclude_completed"},
                     {"exclude_completed"}),
        m \in MaxResultsArgs, c \in BOOLEAN }

SearchCompaniesArgs ==
    { o @@ [max_results |-> m, ctx |-> c] :
        o \in Inputs({"name_contains", "is_active"}, {"is_active"}),
        m \in MaxResultsArgs, c \in BOOLEAN }

SearchContactsArgs ==
    { o @@ [max_results |-> m] :
        o \in Inputs({"company_id", "email_contains", "first_name", "last_name", "is_active"},
                     {"is_active"}),
        m \in MaxResultsArgs }

SearchResourcesArgs ==
    { o @@ [max_results |-> m] :
        o \in Inputs({"first_name", "last_name", "email", "is_active"}, {"is_active"}),
        m \in MaxResultsArgs }

SearchRolesArgs ==
    { o @@ [max_results |-> m] :
        o \in Inputs({"is_active"}, {"is_active"}), m \in MaxResultsArgs }

SearchContractsArgs ==
    { o @@ [max_results |-> m] :
        o \in Inputs({"company_id", "contract_name", "is_active"}, {"is_active"}),
        m \in MaxResultsArgs }

SearchBillingCodesArgs ==
    { o @@ [max_results |-> m] :
        o \in Inputs({"name", "is_active"}, {"is_active"}), m \in MaxResultsArgs }

TicketIds == {0, 7}

GetTicketArgs == { [ticket_id |-> t, ctx |-> c] : t \in TicketIds, c \in BOOLEAN }

CreateTicketArgs ==
    { o @@ [title |-> t, company_id |-> c] :
        o \in Inputs({"description", "status", "priority", "queue_id", "assigned_resource_id",
                      "assigned_resource_role_id", "due_date_time", "ticket_type"},
                     {"status", "priority", "ticket_type"}),
        t \in {"", "Printer down"}, c \in {0, 123} }

UpdateTicketFields ==
    {"title", "description", "status", "priority", "queue_id", "assigned_resource_id",
     "assigned_resource_role_id", "due_date_time"}

\* Any set of the optional fields supplied together, all zero-valued or all not.
AllSupplied(F) ==
    { [f \in F |-> IF f \in S THEN Choice(f, i, {}) ELSE Null] : S \in SUBSET F, i \in 1..2 }

UpdateTicketArgs ==
    { o @@ [ticket_id |-> t] :
        o \in Inputs(UpdateTicketFields, {}) \cup AllSupplied(UpdateTicketFields),
        t \in TicketIds }

CreateTicketNoteArgs ==
    { [ticket_id |-> t, title |-> ti, description |-> d, note_type |-> n, publish |-> pb] :
        t \in TicketIds, ti \in {Unset, Null, Some(""), Some("title")},
        d \in {"", "note body"}, n \in {Unset, Some(0), Some(2)}, pb \in {Unset, Some(2)} }

HoursValues == {-1, 0, 1, 24, 25}

CreateTimeEntryArgs ==
    { o @@ [ticket_id |-> t, task_id |-> k, hours_worked |-> h,
            resource_id |-> 5, role_id |-> 2, summary_notes |-> "fix"] :
        o \in Inputs({"date_worked", "internal_notes", "billing_code_id", "contract_id",
                      "hours_to_bill", "is_non_billable", "show_on_invoice",
                      "start_date_time", "end_date_time"}, {}),
        t \in {Null, Some(0), Some(10)}, k \in {Null, Some(0), Some(20)},
        h \in HoursValues }

PicklistArgs ==
    { [entity |-> "Tickets", field |-> f] :
        f \in {"status", "STATUS", "QueueId", "title", "priority", "missing"} }

GetCompanyArgs == { [company_id |-> c] : c \in {0, 123} }

GetResourceArgs == { [resource_id |-> c] : c \in {0, 5} }

\* ------------------------------------------------------------ configuration
AUTOTASK_API_URL == "https://webservices14.autotask.net/ATServicesRest/v1.0"

\* max_records of _query_entity when the caller passes none
DefaultMaxRecords == 50

\* ------------------------------------------------------------ upstream
NoResponse ==
    [kind |-> "none", status_code |-> 0, text |-> "", json |-> [type |-> "invalid", v |-> EmptyDict], msg |-> ""]

Http(status, text, type, body) ==
    [kind |-> "http", status_code |-> status, text |-> text,
     json |-> [type |-> type, v |-> body], msg |-> ""]

\* What the remote end can do with one call whose well-formed answers are the
\* JSON objects of bodies.
Upstream(bodies) ==
    << [NoResponse EXCEPT !.kind = "timeout"],
       [NoResponse EXCEPT !.kind = "request_error", !.msg = "connection refused"],
       Http(400, "bad request", "invalid", EmptyDict),
       Http(500, "", "invalid", EmptyDict),
       Http(500, "{error}", "object", [errors |-> <<"boom">>]),
       Http(200, "", "invalid", EmptyDict),
       Http(200, "<html>", "invalid", EmptyDict),
       Http(200, "[]", "array", EmptyDict),
       Http(302, "{json}", "object", bodies[2]) >>
    \o [i \in 1..Len(bodies) |-> Http(200, "{json}", "object", bodies[i])]

RemoteError == [error |-> <<"remote fault">>]
Items(n) == [i \in 1..n |-> [id |-> 100 + i]]
RemoteItem == [id |-> 42, title |-> "remote title", status |-> 8, queueID |-> 3]

QueryBodies ==
    [n \in 1..(MaxItems + 1) |-> [items |-> Items(n - 1)]]
    \o <<EmptyDict, RemoteError, [items |-> Items(DefaultMaxRecords)]>>
ItemBodies ==
    << [item |-> RemoteItem], RemoteItem, [item |-> [title |-> "no id"]], RemoteError >>

\* Field metadata as {Entity}/entityInformation/fields lists it.
FieldEntries ==
    { [name |-> "status", isPickList |-> TRUE,
       picklistValues |-> <<[value |-> "1", label |-> "New"], [value |-> "5", label |-> "Complete"]>>],
      [name |-> "queueID", isPickList |-> TRUE,
       picklistValues |-> <<[value |-> "8", label |-> "Level I"]>>],
      [name |-> "priority", isPickList |-> TRUE],
      [name |-> "title", isPickList |-> FALSE],
      [name |-> "Status", dataType |-> "string"] }

FieldLists == UNION { [1..n -> FieldEntries] : n \in 0..MaxFields }

FieldsResponses ==
    { Upstream(<<EmptyDict, EmptyDict, RemoteError>>)[i] : i \in 1..12 }
    \cup { Http(200, "{json}", "object", [fields |-> l]) : l \in FieldLists }

\* ------------------------------------------------------------ Transport
SupportedMethods == {"GET", "POST", "PATCH", "PUT", "DELETE"}

\* str.upper() on the method names in play
Upper(method) ==
    CASE method = "get" -> "GET"
      [] method = "Patch" -> "PATCH"
      [] OTHER -> method

Url(endpoint) == <<AUTOTASK_API_URL, "/">> \o endpoint

\* a Transport that tries every request a second time
Wire_Retry(method, endpoint, data) ==
    IF Upper(method) \in SupportedMethods
    THEN <<[method |-> Upper(method), endpoint |-> endpoint, data |-> data],
           [method |-> Upper(method), endpoint |-> endpoint, data |-> data]>>
    ELSE <<>>

\* The request _make_request puts on the wire (none for an unsupported method).
Wire(method, endpoint, data) ==
    IF Upper(method) \in SupportedMethods
    THEN <<[method |-> Upper(method), endpoint |-> endpoint, data |-> data]>>
    ELSE <<>>

\* The dict _make_request returns for the upstream response r; an exception
\* it lets escape is [exception |-> name].
_make_request(method, endpoint, r) ==
    IF Upper(method) \notin SupportedMethods
    THEN [error |-> <<"Unsupported HTTP method: ", method>>]
    ELSE IF r.kind = "timeout"
    THEN [error |-> <<"Request timed out">>]
    ELSE IF r.kind = "request_error"
    THEN [error |-> <<"Request failed: ", r.msg>>]
    ELSE IF r.status_code >= 400
    THEN [error |-> <<"API returned status ", ToString(r.status_code)>>,
          status_code |-> r.status_code,
          response_text |-> r.text,
          url |-> Url(endpoint),
          method |-> method]
    ELSE IF r.text # ""
    THEN IF r.json.type = "invalid"
         THEN [error |-> <<"Failed to parse API response">>, raw_response |-> r.text]
         ELSE IF r.json.type = "object"
         THEN r.json.v
         ELSE [exception |-> "AttributeError"]
    ELSE [success |-> TRUE]

\* --- Transport called on its own
TransportArgs ==
    { [method |-> m, endpoint |-> <<"Tickets/7">>] :
        m \in {"GET", "POST", "PATCH", "PUT", "DELETE", "get", "Patch", "HEAD", "TRACE"} }

\* s repeated 2^k times
RECURSIVE Doubled(_, _)
Doubled(s, k) == IF k = 0 THEN s ELSE LET h == Doubled(s, k - 1) IN h \o h

\* A response text of 512 characters.
LongText == Doubled("x", 9)

\* Upstream answers around the status boundary and with a long body.
TransportUpstream ==
    Upstream(ItemBodies)
    \o << Http(399, "{json}", "object", [item |-> RemoteItem]),
           Http(399, "", "invalid", EmptyDict),
           Http(399, "<html>", "invalid", EmptyDict),
           Http(400, "{json}", "object", [item |-> RemoteItem]),
           Http(404, LongText, "invalid", EmptyDict),
           Http(200, LongText, "invalid", EmptyDict) >>

\* ------------------------------------------------------------ Query Builder
\* a query that asks for the largest page (MAX_PAGE_SIZE) whatever it is given
QueryBody_MaxPage(filters, fields, max_records) ==
    [MaxRecords |-> 500, filter |-> filters]

QueryBody(filters, fields, max_records) ==
    [MaxRecords |-> max_records, filter |-> filters]
    @@ PutIf(fields # <<>>, "IncludeFields", fields)

\* ------------------------------------------------------------ handler plumbing
\* a handler that never looks for the error key
IsError_Never(res) == FALSE

\* a handler that takes the HTTP status, not the error key, as the sign of failure
IsError_ByStatus(res) == "status_code" \in DOMAIN res

\* if "error" in result
IsError(res) == "error" \in DOMAIN res
\* _make_request did not return: its exception passes through the handler
Escaped(res) == "exception" \in DOMAIN res

NoOutcome == [kind |-> "none"]
Return(v) == [kind |-> "return", value |-> v]
\* a failure that keeps the operation's words and drops the Transport message
ToolError_Masked(msg) == [kind |-> "raise", exc |-> "ToolError", msg |-> <<msg[1]>>]

ToolError(msg) == [kind |-> "raise", exc |-> "ToolError", msg |-> msg]
Escapes(res) == [kind |-> "raise", exc |-> res.exception, msg |-> <<>>]

\* A handler calls _make_request: the request goes out and the handler waits.
Call(name, a, method, endpoint, data) ==
    /\ pc' = "await"
    /\ op' = name
    /\ args' = a
    /\ sent' = Wire(method, endpoint, data)
    /\ UNCHANGED <<response, result, current, ctx_log, clock_read, outcome>>

\* A handler raises before any HTTP call.
Reject(name, a, msg) ==
    /\ pc' = "done"
    /\ op' = name
    /\ args' = a
    /\ outcome' = ToolError(msg)
    /\ UNCHANGED <<sent, response, result, current, ctx_log, clock_read>>

\* The handler's last HTTP call came back as r and the handler ends with out.
Finish(r, res, out) ==
    /\ pc' = "done"
    /\ response' = r
    /\ result' = res
    /\ outcome' = out
    /\ UNCHANGED <<op, args, sent, current, ctx_log, clock_read>>

\* The same, after reporting the failure through ctx.error when a ctx was given.
FinishLogged(r, res, out, message, extra) ==
    /\ pc' = "done"
    /\ response' = r
    /\ result' = res
    /\ outcome' = out
    /\ ctx_log' = IF args.ctx THEN <<[message |-> message, extra |-> extra]>> ELSE <<>>
    /\ UNCHANGED <<op, args, sent, current, clock_read>>

Init ==
    /\ pc = "idle"
    /\ op = "none"
    /\ args = EmptyDict
    /\ sent = <<>>
    /\ response = NoResponse
    /\ result = EmptyDict
    /\ current = EmptyDict
    /\ ctx_log = <<>>
    /\ clock_read = Null
    /\ outcome = NoOutcome

\* The caller has its answer; the next invocation starts from scratch.
NextCall ==
    /\ pc = "done"
    /\ pc' = "idle"
    /\ op' = "none"
    /\ args' = EmptyDict
    /\ sent' = <<>>
    /\ response' = NoResponse
    /\ result' = EmptyDict
    /\ current' = EmptyDict
    /\ ctx_log' = <<>>
    /\ clock_read' = Null
    /\ outcome' = NoOutcome

\* _make_request called on its own: the request goes out, or the method is
\* refused before any HTTP call.
_make_request_sent ==
    /\ pc = "idle"
    /\ \E a \in TransportArgs :
          IF Upper(a.method) \in SupportedMethods
          THEN Call("_make_request", a, a.method, a.endpoint, EmptyDict)
          ELSE /\ pc' = "done"
               /\ op' = "_make_request"
               /\ args' = a
               /\ result' = _make_request(a.method, a.endpoint, NoResponse)
               /\ outcome' = Return(result')
               /\ UNCHANGED <<sent, response, current, ctx_log, clock_read>>

_make_request_returned ==
    /\ pc = "await"
    /\ op = "_make_request"
    /\ \E i \in DOMAIN TransportUpstream :
          LET r == TransportUpstream[i]
              res == _make_request(args.method, args.endpoint, r)
          IN  IF Escaped(res)
              THEN Finish(r, res, Escapes(res))
              ELSE Finish(r, res, Return(res))

\* ------------------------------------------------------------ search handlers
Clause(cond, o, f, value) ==
    IF cond THEN <<[op |-> o, field |-> f, value |-> value.v]>> ELSE <<>>
ExistId == [op |-> "exist", field |-> "id"]
ActiveTrue == [op |-> "eq", field |-> "isActive", value |-> TRUE]
\* the filter list sent as built, without the "if not filters" substitution
OrCatchAll_Never(filters, clause) == filters

OrCatchAll(filters, clause) == IF filters = <<>> THEN <<clause>> ELSE filters

\* _query_entity as a handler calls it: POST {entity}/query.
_query_entity(name, a, entity, filters, fields, max_records) ==
    Call(name, a, "POST", <<entity, "/query">>, QueryBody(filters, fields, max_records))

\* items = result.get("items", []); if max_results: items = items[:max_results]
Truncated(res, max_results) ==
    LET items == Get(res, "items", <<>>)
    IN  IF TruthyNum(max_results) THEN PySliceTo(items, max_results.v) ELSE items

SearchReturn(res, max_results, key) ==
    LET items == Truncated(res, max_results)
    IN  Return([count |-> Len(items)] @@ (key :> items))

LogExtra(res, filters) ==
    [status_code |-> GetOpt(res, "status_code"),
     response_text |-> GetOpt(res, "response_text"),
     filters |-> filters]

\* The part of a search handler after _query_entity returns.
SearchDone(entity, max_results, prefix, key) ==
    \E i \in DOMAIN Upstream(QueryBodies) :
          LET r == Upstream(QueryBodies)[i]
              res == _make_request("POST", <<entity, "/query">>, r)
          IN  IF Escaped(res)
              THEN Finish(r, res, Escapes(res))
              ELSE IF IsError(res)
              THEN Finish(r, res, ToolError(<<prefix>> \o res.error))
              ELSE Finish(r, res, SearchReturn(res, max_results, key))

\* exclude_completed defaulting to False
SearchTicketsInput_NoExclude(a) ==
    [a EXCEPT !.exclude_completed = Default(@, FALSE), !.max_results = Default(@, 50)]

SearchTicketsInput(a) ==
    [a EXCEPT !.exclude_completed = Default(@, TRUE), !.max_results = Default(@, 50)]

SearchTicketsFilters(params) ==
    OrCatchAll(
        Clause(TruthyNum(params.company_id), "eq", "companyID", params.company_id)
        \o Clause(TruthyNum(params.status), "eq", "status", params.status)
        \o Clause(TruthyNum(params.priority), "eq", "priority", params.priority)
        \o Clause(TruthyNum(params.assigned_resource_id), "eq", "assignedResourceID",
                  params.assigned_resource_id)
        \o Clause(TruthyNum(params.queue_id), "eq", "queueID", params.queue_id)
        \o Clause(TruthyStr(params.title_contains), "contains", "title", params.title_contains)
        \o Clause(TruthyBool(params.exclude_completed), "notequal", "status", Some(5)),
        ExistId)

autotask_search_tickets ==
    /\ pc = "idle"
    /\ \E a \in SearchTicketsArgs :
          _query_entity("search_tickets", a, "Tickets",
                     SearchTicketsFilters(SearchTicketsInput(a)), <<>>, DefaultMaxRecords)

autotask_search_tickets_done ==
    /\ pc = "await"
    /\ op = "search_tickets"
    /\ \E i \in DOMAIN Upstream(QueryBodies) :
          LET r == Upstream(QueryBodies)[i]
              res == _make_request("POST", <<"Tickets", "/query">>, r)
              params == SearchTicketsInput(args)
          IN  IF Escaped(res)
              THEN Finish(r, res, Escapes(res))
              ELSE IF IsError(res)
              THEN FinishLogged(r, res,
                                ToolError(<<"Failed to search tickets: ">> \o res.error),
                                <<"search_tickets failed: ">> \o res.error,
                                LogExtra(res, SearchTicketsFilters(params)))
              ELSE Finish(r, res, SearchReturn(res, params.max_results, "tickets"))

\* --- companies
SearchCompaniesInput(a) ==
    [a EXCEPT !.is_active = Default(@, TRUE), !.max_results = Default(@, 50)]

SearchCompaniesFilters(params) ==
    OrCatchAll(
        Clause(TruthyStr(params.name_contains), "contains", "companyName", params.name_contains)
        \o Clause(~IsNone(params.is_active), "eq", "isActive", params.is_active),
        ActiveTrue)

autotask_search_companies ==
    /\ pc = "idle"
    /\ \E a \in SearchCompaniesArgs :
          _query_entity("search_companies", a, "Companies",
                     SearchCompaniesFilters(SearchCompaniesInput(a)), <<>>, DefaultMaxRecords)

autotask_search_companies_done ==
    /\ pc = "await"
    /\ op = "search_companies"
    /\ \E i \in DOMAIN Upstream(QueryBodies) :
          LET r == Upstream(QueryBodies)[i]
              res == _make_request("POST", <<"Companies", "/query">>, r)
              params == SearchCompaniesInput(args)
          IN  IF Escaped(res)
              THEN Finish(r, res, Escapes(res))
              ELSE IF IsError(res)
              THEN FinishLogged(r, res,
                                ToolError(<<"Failed to search companies: ">> \o res.error),
                                <<"search_companies failed: ">> \o res.error,
                                LogExtra(res, SearchCompaniesFilters(params)))
              ELSE Finish(r, res, SearchReturn(res, params.max_results, "companies"))

\* --- contacts
SearchContactsInput(a) ==
    [a EXCEPT !.is_active = Default(@, TRUE), !.max_results = Default(@, 50)]

SearchContactsFilters(params) ==
    OrCatchAll(
        Clause(TruthyNum(params.company_id), "eq", "companyID", params.company_id)
        \o Clause(TruthyStr(params.email_contains), "contains", "emailAddress",
                  params.email_contains)
        \o Clause(TruthyStr(params.first_name), "contains", "firstName", params.first_name)
        \o Clause(TruthyStr(params.last_name), "contains", "lastName", params.last_name)
        \o Clause(~IsNone(params.is_active), "eq", "isActive", params.is_active),
        ActiveTrue)

autotask_search_contacts ==
    /\ pc = "idle"
    /\ \E a \in SearchContactsArgs :
          _query_entity("search_contacts", a, "Contacts",
                     SearchContactsFilters(SearchContactsInput(a)), <<>>, DefaultMaxRecords)

autotask_search_contacts_done ==
    /\ pc = "await"
    /\ op = "search_contacts"
    /\ SearchDone("Contacts", SearchContactsInput(args).max_results,
               "Failed to search contacts: ", "contacts")

\* --- resources
SearchResourcesInput(a) ==
    [a EXCEPT !.is_active = Default(@, TRUE), !.max_results = Default(@, 50)]

SearchResourcesFilters(params) ==
    OrCatchAll(
        Clause(TruthyStr(params.first_name), "contains", "firstName", params.first_name)
        \o Clause(TruthyStr(params.last_name), "contains", "lastName", params.last_name)
        \o Clause(TruthyStr(params.email), "contains", "email", params.email)
        \o Clause(~IsNone(params.is_active), "eq", "isActive", params.is_active),
        ExistId)

autotask_search_resources ==
    /\ pc = "idle"
    /\ \E a \in SearchResourcesArgs :
          _query_entity("search_resources", a, "Resources",
                     SearchResourcesFilters(SearchResourcesInput(a)), <<>>, DefaultMaxRecords)

autotask_search_resources_done ==
    /\ pc = "await"
    /\ op = "search_resources"
    /\ SearchDone("Resources", SearchResourcesInput(args).max_results,
               "Failed to search resources: ", "resources")

\* --- roles (plain keyword arguments, defaults True and 50)
SearchRolesInput(a) ==
    [a EXCEPT !.is_active = Default(@, TRUE), !.max_results = Default(@, 50)]

SearchRolesFilters(params) ==
    OrCatchAll(Clause(~IsNone(params.is_active), "eq", "isActive", params.is_active), ExistId)

autotask_search_roles ==
    /\ pc = "idle"
    /\ \E a \in SearchRolesArgs :
          _query_entity("search_roles", a, "Roles",
                     SearchRolesFilters(SearchRolesInput(a)), <<>>, DefaultMaxRecords)

autotask_search_roles_done ==
    /\ pc = "await"
    /\ op = "search_roles"
    /\ SearchDone("Roles", SearchRolesInput(args).max_results,
               "Failed to search roles: ", "roles")

\* --- contracts
SearchContractsInput(a) ==
    [a EXCEPT !.is_active = Default(@, TRUE), !.max_results = Default(@, 50)]

SearchContractsFilters(params) ==
    OrCatchAll(
        Clause(TruthyNum(params.company_id), "eq", "companyID", params.company_id)
        \o Clause(TruthyStr(params.contract_name), "contains", "contractName",
                  params.contract_name)
        \o Clause(~IsNone(params.is_active), "eq", "isActive", params.is_active),
        ExistId)

autotask_search_contracts ==
    /\ pc = "idle"
    /\ \E a \in SearchContractsArgs :
          _query_entity("search_contracts", a, "Contracts",
                     SearchContractsFilters(SearchContractsInput(a)), <<>>, DefaultMaxRecords)

autotask_search_contracts_done ==
    /\ pc = "await"
    /\ op = "search_contracts"
    /\ SearchDone("Contracts", SearchContractsInput(args).max_results,
               "Failed to search contracts: ", "contracts")

\* --- billing codes
SearchBillingCodesInput(a) ==
    [a EXCEPT !.is_active = Default(@, TRUE), !.max_results = Default(@, 50)]

SearchBillingCodesFilters(params) ==
    OrCatchAll(
        Clause(TruthyStr(params.name), "contains", "name", params.name)
        \o Clause(~IsNone(params.is_active), "eq", "isActive", params.is_active),
        ExistId)

autotask_search_billing_codes ==
    /\ pc = "idle"
    /\ \E a \in SearchBillingCodesArgs :
          _query_entity("search_billing_codes", a, "BillingCodes",
                     SearchBillingCodesFilters(SearchBillingCodesInput(a)), <<>>, DefaultMaxRecords)

autotask_search_billing_codes_done ==
    /\ pc = "await"
    /\ op = "search_billing_codes"
    /\ SearchDone("BillingCodes",
               SearchBillingCodesInput(args).max_results,
               "Failed to search billing codes: ", "billing_codes")

\* ------------------------------------------------------------ ticket handlers
autotask_get_ticket ==
    /\ pc = "idle"
    /\ \E a \in GetTicketArgs :
          Call("get_ticket", a, "GET", <<"Tickets/", ToString(a.ticket_id)>>, EmptyDict)

autotask_get_ticket_done ==
    /\ pc = "await"
    /\ op = "get_ticket"
    /\ \E i \in DOMAIN Upstream(ItemBodies) :
          LET r == Upstream(ItemBodies)[i]
              res == _make_request("GET", <<"Tickets/", ToString(args.ticket_id)>>, r)
          IN  IF Escaped(res)
              THEN Finish(r, res, Escapes(res))
              ELSE IF IsError(res)
              THEN FinishLogged(r, res,
                                ToolError(<<"Failed to get ticket ", ToString(args.ticket_id), ": ">>
                                          \o res.error),
                                <<"get_ticket failed: ">> \o res.error,
                                [status_code |-> GetOpt(res, "status_code"),
                                 response_text |-> GetOpt(res, "response_text")])
              ELSE Finish(r, res, Return(Get(res, "item", res)))

\* --- create ticket
\* priority defaulting to 1
CreateTicketInput_Priority1(a) ==
    [a EXCEPT !.status = Default(@, 1), !.priority = Default(@, 1),
              !.ticket_type = Default(@, 1)]

CreateTicketInput(a) ==
    [a EXCEPT !.status = Default(@, 1), !.priority = Default(@, 2),
              !.ticket_type = Default(@, 1)]

\* status, priority and ticketType are copied as the Optional[int] they are
\* (Null is a JSON null); every other key holds a plain value.
CreateTicketData(params) ==
    [title |-> params.title,
     companyID |-> params.company_id,
     status |-> params.status,
     priority |-> params.priority,
     ticketType |-> params.ticket_type]
    @@ PutIf(TruthyStr(params.description), "description", params.description.v)
    @@ PutIf(TruthyNum(params.queue_id), "queueID", params.queue_id.v)
    @@ PutIf(TruthyNum(params.assigned_resource_id), "assignedResourceID",
             params.assigned_resource_id.v)
    @@ PutIf(TruthyNum(params.assigned_resource_role_id), "assignedResourceRoleID",
             params.assigned_resource_role_id.v)
    @@ PutIf(TruthyStr(params.due_date_time), "dueDateTime", params.due_date_time.v)

autotask_create_ticket ==
    /\ pc = "idle"
    /\ \E a \in CreateTicketArgs :
          Call("create_ticket", a, "POST", <<"Tickets">>, CreateTicketData(CreateTicketInput(a)))

autotask_create_ticket_done ==
    /\ pc = "await"
    /\ op = "create_ticket"
    /\ \E i \in DOMAIN Upstream(ItemBodies) :
          LET r == Upstream(ItemBodies)[i]
              res == _make_request("POST", <<"Tickets">>, r)
              item == Get(res, "item", res)
          IN  IF Escaped(res)
              THEN Finish(r, res, Escapes(res))
              ELSE IF IsError(res)
              THEN Finish(r, res, ToolError(<<"Failed to create ticket: ">> \o res.error))
              ELSE Finish(r, res, Return([success |-> TRUE,
                                          ticket_id |-> GetOpt(item, "id"),
                                          ticket |-> item]))

\* --- update ticket
\* update_data built with truthiness tests (if params.x:) instead of "is not None"
UpdateData_Truthy(params) ==
    [id |-> params.ticket_id]
    @@ PutIf(TruthyStr(params.title), "title", params.title.v)
    @@ PutIf(TruthyStr(params.description), "description", params.description.v)
    @@ PutIf(TruthyNum(params.status), "status", params.status.v)
    @@ PutIf(TruthyNum(params.priority), "priority", params.priority.v)
    @@ PutIf(TruthyNum(params.queue_id), "queueID", params.queue_id.v)
    @@ PutIf(TruthyNum(params.assigned_resource_id), "assignedResourceID",
             params.assigned_resource_id.v)
    @@ PutIf(TruthyNum(params.assigned_resource_role_id), "assignedResourceRoleID",
             params.assigned_resource_role_id.v)
    @@ PutIf(TruthyStr(params.due_date_time), "dueDateTime", params.due_date_time.v)

UpdateData(params) ==
    [id |-> params.ticket_id]
    @@ PutIf(~IsNone(params.title), "title", params.title.v)
    @@ PutIf(~IsNone(params.description), "description", params.description.v)
    @@ PutIf(~IsNone(params.status), "status", params.status.v)
    @@ PutIf(~IsNone(params.priority), "priority", params.priority.v)
    @@ PutIf(~IsNone(params.queue_id), "queueID", params.queue_id.v)
    @@ PutIf(~IsNone(params.assigned_resource_id), "assignedResourceID",
             params.assigned_resource_id.v)
    @@ PutIf(~IsNone(params.assigned_resource_role_id), "assignedResourceRoleID",
             params.assigned_resource_role_id.v)
    @@ PutIf(~IsNone(params.due_date_time), "dueDateTime", params.due_date_time.v)

\* The preliminary GET goes out.
autotask_update_ticket ==
    /\ pc = "idle"
    /\ \E a \in UpdateTicketArgs :
          Call("update_ticket", a, "GET", <<"Tickets/", ToString(a.ticket_id)>>, EmptyDict)

\* The GET came back: raise, or build update_data and send the PATCH.
autotask_update_ticket_fetched ==
    /\ pc = "await"
    /\ op = "update_ticket"
    /\ Len(sent) = 1
    /\ \E i \in DOMAIN Upstream(ItemBodies) :
          LET r == Upstream(ItemBodies)[i]
              res == _make_request("GET", <<"Tickets/", ToString(args.ticket_id)>>, r)
          IN  IF Escaped(res)
              THEN Finish(r, res, Escapes(res))
              ELSE IF IsError(res)
              THEN Finish(r, res,
                          ToolError(<<"Failed to fetch ticket ", ToString(args.ticket_id), ": ">>
                                    \o res.error))
              ELSE /\ pc' = "await"
                   /\ response' = r
                   /\ result' = res
                   /\ current' = res
                   /\ sent' = sent \o Wire("PATCH", <<"Tickets">>, UpdateData(args))
                   /\ UNCHANGED <<op, args, ctx_log, clock_read, outcome>>

autotask_update_ticket_done ==
    /\ pc = "await"
    /\ op = "update_ticket"
    /\ Len(sent) = 2
    /\ \E i \in DOMAIN Upstream(ItemBodies) :
          LET r == Upstream(ItemBodies)[i]
              res == _make_request("PATCH", <<"Tickets">>, r)
              item == Get(res, "item", res)
          IN  IF Escaped(res)
              THEN Finish(r, res, Escapes(res))
              ELSE IF IsError(res)
              THEN Finish(r, res,
                          ToolError(<<"Failed to update ticket ", ToString(args.ticket_id), ": ">>
                                    \o res.error))
              ELSE Finish(r, res, Return([success |-> TRUE,
                                          ticket_id |-> args.ticket_id,
                                          updated_fields |-> UpdateData(args),
                                          ticket |-> item]))

\* --- create ticket note
CreateTicketNoteInput(a) ==
    [a EXCEPT !.title = Default(@, ""), !.note_type = Default(@, 1).v,
              !.publish = Default(@, 1).v]

NoteData(params) ==
    [description |-> params.description,
     noteType |-> params.note_type,
     publish |-> params.publish]
    @@ PutIf(TruthyStr(params.title), "title", params.title.v)

autotask_create_ticket_note ==
    /\ pc = "idle"
    /\ \E a \in CreateTicketNoteArgs :
          Call("create_ticket_note", a, "POST",
               <<"Tickets/", ToString(a.ticket_id), "/Notes">>,
               NoteData(CreateTicketNoteInput(a)))

autotask_create_ticket_note_done ==
    /\ pc = "await"
    /\ op = "create_ticket_note"
    /\ \E i \in DOMAIN Upstream(ItemBodies) :
          LET r == Upstream(ItemBodies)[i]
              res == _make_request("POST", <<"Tickets/", ToString(args.ticket_id), "/Notes">>, r)
              item == Get(res, "item", res)
          IN  IF Escaped(res)
              THEN Finish(r, res, Escapes(res))
              ELSE IF IsError(res)
              THEN Finish(r, res, ToolError(<<"Failed to create ticket note: ">> \o res.error))
              ELSE Finish(r, res, Return([success |-> TRUE,
                                          note_id |-> GetOpt(item, "id"),
                                          ticket_id |-> args.ticket_id,
                                          note |-> item]))

\* ------------------------------------------------------------ time entries
\* datetime.now(timezone.utc), as far as strftime("%Y-%m-%d") looks at it
UtcNow == { [year |-> 2026, month |-> 11, day |-> 2], [year |-> 2027, month |-> 1, day |-> 15] }

Pad2(n) == IF n < 10 THEN "0" \o ToString(n) ELSE ToString(n)

\* strftime("%Y-%-m-%-d"): month and day without their leading zero
FormatDate_Unpadded(dt) == ToString(dt.year) \o "-" \o ToString(dt.month) \o "-" \o ToString(dt.day)

_format_date_for_api(dt) == ToString(dt.year) \o "-" \o Pad2(dt.month) \o "-" \o Pad2(dt.day)

\* params.date_worked or _format_date_for_api() reads the clock only when
\* date_worked is None or empty.
ReadsClock(params) == ~TruthyStr(params.date_worked)

\* a body that copies both parent ids, 0 standing for a missing one
TimeEntryData_BothParents(params, now) ==
    [resourceID |-> params.resource_id,
     roleID |-> params.role_id,
     hoursWorked |-> params.hours_worked,
     summaryNotes |-> params.summary_notes,
     dateWorked |-> _format_date_for_api(now),
     ticketID |-> IF IsSome(params.ticket_id) THEN params.ticket_id.v ELSE 0,
     taskID |-> IF IsSome(params.task_id) THEN params.task_id.v ELSE 0]

TimeEntryData(params, now) ==
    [resourceID |-> params.resource_id,
     roleID |-> params.role_id,
     hoursWorked |-> params.hours_worked,
     summaryNotes |-> params.summary_notes,
     dateWorked |-> IF TruthyStr(params.date_worked) THEN params.date_worked.v
                    ELSE _format_date_for_api(now)]
    @@ (IF TruthyNum(params.ticket_id)
        THEN "ticketID" :> params.ticket_id.v
        ELSE "taskID" :> params.task_id.v)
    @@ PutIf(TruthyStr(params.internal_notes), "internalNotes", params.internal_notes.v)
    @@ PutIf(TruthyNum(params.billing_code_id), "billingCodeID", params.billing_code_id.v)
    @@ PutIf(TruthyNum(params.contract_id), "contractID", params.contract_id.v)
    @@ PutIf(~IsNone(params.hours_to_bill), "hoursToBill", params.hours_to_bill.v)
    @@ PutIf(~IsNone(params.is_non_billable), "isNonBillable", params.is_non_billable.v)
    @@ PutIf(~IsNone(params.show_on_invoice), "showOnInvoice", params.show_on_invoice.v)
    @@ PutIf(TruthyStr(params.start_date_time), "startDateTime", params.start_date_time.v)
    @@ PutIf(TruthyStr(params.end_date_time), "endDateTime", params.end_date_time.v)

NeitherParent(params) == ~TruthyNum(params.ticket_id) /\ ~TruthyNum(params.task_id)
BothParents(params) == TruthyNum(params.ticket_id) /\ TruthyNum(params.task_id)
HoursOutOfRange(params) == params.hours_worked <= 0 \/ params.hours_worked > 24

autotask_create_time_entry ==
    /\ pc = "idle"
    /\ \E a \in CreateTimeEntryArgs :
          IF NeitherParent(a)
          THEN Reject("create_time_entry", a, <<"Either ticket_id or task_id is required">>)
          ELSE IF BothParents(a)
          THEN Reject("create_time_entry", a, <<"Provide either ticket_id OR task_id, not both">>)
          ELSE IF HoursOutOfRange(a)
          THEN Reject("create_time_entry", a, <<"hours_worked must be > 0 and <= 24">>)
          ELSE \E now \in UtcNow :
                 /\ pc' = "await"
                 /\ op' = "create_time_entry"
                 /\ args' = a
                 /\ clock_read' = IF ReadsClock(a) THEN Some(now) ELSE Null
                 /\ sent' = Wire("POST", <<"TimeEntries">>, TimeEntryData(a, now))
                 /\ UNCHANGED <<response, result, current, ctx_log, outcome>>

autotask_create_time_entry_done ==
    /\ pc = "await"
    /\ op = "create_time_entry"
    /\ \E i \in DOMAIN Upstream(ItemBodies) :
          LET r == Upstream(ItemBodies)[i]
              res == _make_request("POST", <<"TimeEntries">>, r)
              item == Get(res, "item", res)
          IN  IF Escaped(res)
              THEN Finish(r, res, Escapes(res))
              ELSE IF IsError(res)
              THEN Finish(r, res, ToolError(<<"Failed to create time entry: ">> \o res.error))
              ELSE Finish(r, res,
                          Return([success |-> TRUE,
                                  time_entry_id |-> GetOpt(item, "id"),
                                  hours |-> args.hours_worked,
                                  ticket_or_task_id |-> IF TruthyNum(args.ticket_id)
                                                        THEN args.ticket_id ELSE args.task_id,
                                  time_entry |-> item]))

\* ------------------------------------------------------------ get by id
autotask_get_company ==
    /\ pc = "idle"
    /\ \E a \in GetCompanyArgs :
          Call("get_company", a, "GET", <<"Companies/", ToString(a.company_id)>>, EmptyDict)

autotask_get_company_done ==
    /\ pc = "await"
    /\ op = "get_company"
    /\ \E i \in DOMAIN Upstream(ItemBodies) :
          LET r == Upstream(ItemBodies)[i]
              res == _make_request("GET", <<"Companies/", ToString(args.company_id)>>, r)
          IN  IF Escaped(res)
              THEN Finish(r, res, Escapes(res))
              ELSE IF IsError(res)
              THEN Finish(r, res,
                          ToolError(<<"Failed to get company ", ToString(args.company_id), ": ">>
                                    \o res.error))
              ELSE Finish(r, res, Return(Get(res, "item", res)))

autotask_get_resource ==
    /\ pc = "idle"
    /\ \E a \in GetResourceArgs :
          Call("get_resource", a, "GET", <<"Resources/", ToString(a.resource_id)>>, EmptyDict)

autotask_get_resource_done ==
    /\ pc = "await"
    /\ op = "get_resource"
    /\ \E i \in DOMAIN Upstream(ItemBodies) :
          LET r == Upstream(ItemBodies)[i]
              res == _make_request("GET", <<"Resources/", ToString(args.resource_id)>>, r)
          IN  IF Escaped(res)
              THEN Finish(r, res, Escapes(res))
              ELSE IF IsError(res)
              THEN Finish(r, res,
                          ToolError(<<"Failed to get resource ", ToString(args.resource_id), ": ">>
                                    \o res.error))
              ELSE Finish(r, res, Return(Get(res, "item", res)))

\* ------------------------------------------------------------ picklist values
\* str.lower() on the field names in play
Lower(str) ==
    CASE str \in {"STATUS", "Status"} -> "status"
      [] str \in {"queueID", "QueueId"} -> "queueid"
      [] OTHER -> str

\* the same loop comparing the names as they are
RECURSIVE FindField_CaseSensitive(_, _, _)
FindField_CaseSensitive(fields, field, i) ==
    IF i > Len(fields) THEN Null
    ELSE IF Get(fields[i], "name", "") = field THEN Some(fields[i])
    ELSE FindField_CaseSensitive(fields, field, i + 1)

\* for f in fields: if f.get("name", "").lower() == field.lower(): target_field = f; break
RECURSIVE FindField(_, _, _)
FindField(fields, field, i) ==
    IF i > Len(fields) THEN Null
    ELSE IF Lower(Get(fields[i], "name", "")) = Lower(field) THEN Some(fields[i])
    ELSE FindField(fields, field, i + 1)

\* [f.get("name") for f in fields if f.get("isPickList")]
RECURSIVE AvailableFields(_)
AvailableFields(fields) ==
    IF fields = <<>> THEN <<>>
    ELSE (IF Get(Head(fields), "isPickList", FALSE) THEN <<Head(fields).name>> ELSE <<>>)
         \o AvailableFields(Tail(fields))

PicklistOutcome(entity, field, res) ==
    LET fields == Get(res, "fields", <<>>)
        target_field == FindField(fields, field, 1)
    IN  IF IsNone(target_field) \/ target_field.v = EmptyDict
        THEN ToolError(<<"Field '", field, "' not found in ", entity,
                         ". Available picklist fields: ", "[">>
                       \o AvailableFields(fields) \o <<"]">>)
        ELSE IF ~Get(target_field.v, "isPickList", FALSE)
        THEN ToolError(<<"Field '", field, "' is not a picklist field.">>)
        ELSE Return([entity |-> entity, field |-> field,
                     values |-> Get(target_field.v, "picklistValues", <<>>)])

autotask_get_picklist_values ==
    /\ pc = "idle"
    /\ \E a \in PicklistArgs :
          Call("get_picklist_values", a, "GET", <<a.entity, "/entityInformation/fields">>,
               EmptyDict)

autotask_get_picklist_values_done ==
    /\ pc = "await"
    /\ op = "get_picklist_values"
    /\ \E r \in FieldsResponses :
          LET res == _make_request("GET", <<args.entity, "/entityInformation/fields">>, r)
          IN  IF Escaped(res)
              THEN Finish(r, res, Escapes(res))
              ELSE IF IsError(res)
              THEN Finish(r, res,
                          ToolError(<<"Failed to get picklist values for ", args.entity, "/",
                                      args.field, ": ">> \o res.error))
              ELSE Finish(r, res, PicklistOutcome(args.entity, args.field, res))

\* ------------------------------------------------------------ resource handlers
\* A resource handler returns text: the sequence of its lines, each line the
\* sequence of its f-string parts.
Text(lines) == Return(lines)

\* the failure raised as a tool handler raises it
ErrorText_Raised(prefix, res) == ToolError(<<prefix>> \o res.error)

\* f"Error fetching ...: {result['error']}"
ErrorText(prefix, res) == Text(<< <<prefix>> \o res.error >>)

PicklistResourceArgs ==
    { [entity |-> "Tickets", field |-> f] : f \in {"status", "STATUS", "title", "missing"} }

\* Answers to the BillingCodes and Roles queries of the resources.
ResourceQueryBodies ==
    << [items |-> <<>>],
       [items |-> <<[id |-> 29, name |-> "Remote Support"], [id |-> 30]>>],
       EmptyDict,
       RemoteError >>

\* Answers to GET ThresholdInformation.
UserInfoBodies == << EmptyDict, [currentTimeframeRequestCount |-> 5], RemoteError >>

\* str() of item.get('id') and of item.get('name')
IdStr(o) == IF IsNone(o) THEN "None" ELSE ToString(o.v)
NameStr(o) == IF IsNone(o) THEN "None" ELSE o.v

\* lines.append(f"- {val_id}: {label}{is_default}") for each picklist value
PicklistLines(values) ==
    [i \in DOMAIN values |->
        <<"- ", Get(values[i], "value", "Unknown"), ": ", Get(values[i], "label", "Unknown")>>
        \o (IF Get(values[i], "isDefaultValue", FALSE) THEN <<" (Default)">> ELSE <<>>)]

\* lines.append(f"- {item.get('id')}: {item.get('name')}") for each item
ItemLines(items) ==
    [i \in DOMAIN items |->
        <<"- ", IdStr(GetOpt(items[i], "id")), ": ", NameStr(GetOpt(items[i], "name"))>>]

\* lines.append(f"- {val.get('value')}: {val.get('label')}") for each queue
QueueLines(values) ==
    [i \in DOMAIN values |->
        <<"- ", NameStr(GetOpt(values[i], "value")), ": ", NameStr(GetOpt(values[i], "label"))>>]

\* json.dumps(result, indent=2) of a dict of at most one key, an integer or
\* the boolean of the success marker
JsonScalar(k, v) == IF k = "success" THEN (IF v THEN "true" ELSE "false") ELSE ToString(v)
JsonDumps(d) ==
    IF DOMAIN d = {} THEN << <<"{}">> >>
    ELSE LET k == CHOOSE x \in DOMAIN d : TRUE
         IN  << <<"{">>, <<"  \"", k, "\": ", JsonScalar(k, d[k])>>, <<"}">> >>

\* --- autotask://picklist/{entity}/{field}
PicklistResourceText(entity, field, res) ==
    LET fields_data == Get(res, "fields", <<>>)
        target_field == FindField(fields_data, field, 1)
    IN  IF IsNone(target_field) \/ target_field.v = EmptyDict
        THEN Text(<< <<"Field '", field, "' not found in ", entity, ".">> >>)
        ELSE IF ~Get(target_field.v, "isPickList", FALSE)
        THEN Text(<< <<"Field '", field, "' is not a picklist field.">> >>)
        ELSE Text(<< <<"# Picklist Values for ", entity, ".", field>> >>
                  \o PicklistLines(Get(target_field.v, "picklistValues", <<>>)))

get_picklist_resource ==
    /\ pc = "idle"
    /\ \E a \in PicklistResourceArgs :
          Call("picklist_resource", a, "GET", <<a.entity, "/entityInformation/fields">>,
               EmptyDict)

get_picklist_resource_done ==
    /\ pc = "await"
    /\ op = "picklist_resource"
    /\ \E r \in FieldsResponses :
          LET res == _make_request("GET", <<args.entity, "/entityInformation/fields">>, r)
          IN  IF Escaped(res)
              THEN Finish(r, res, Escapes(res))
              ELSE IF IsError(res)
              THEN Finish(r, res, ErrorText("Error fetching picklist: ", res))
              ELSE Finish(r, res, PicklistResourceText(args.entity, args.field, res))

\* --- autotask://user/info
get_user_info ==
    /\ pc = "idle"
    /\ Call("user_info", EmptyDict, "GET", <<"ThresholdInformation">>, EmptyDict)

get_user_info_done ==
    /\ pc = "await"
    /\ op = "user_info"
    /\ \E i \in DOMAIN Upstream(UserInfoBodies) :
          LET r == Upstream(UserInfoBodies)[i]
              res == _make_request("GET", <<"ThresholdInformation">>, r)
          IN  IF Escaped(res)
              THEN Finish(r, res, Escapes(res))
              ELSE IF IsError(res)
              THEN Finish(r, res, ErrorText("Error fetching user info: ", res))
              ELSE Finish(r, res, Text(JsonDumps(res)))

\* --- autotask://billing-codes and autotask://roles
\* The part of a query-based resource handler after _query_entity returns.
ResourceListDone(entity, prefix, heading) ==
    \E i \in DOMAIN Upstream(ResourceQueryBodies) :
          LET r == Upstream(ResourceQueryBodies)[i]
              res == _make_request("POST", <<entity, "/query">>, r)
          IN  IF Escaped(res)
              THEN Finish(r, res, Escapes(res))
              ELSE IF IsError(res)
              THEN Finish(r, res, ErrorText(prefix, res))
              ELSE Finish(r, res,
                          Text(<< <<heading>> >> \o ItemLines(Get(res, "items", <<>>))))

get_billing_codes_resource ==
    /\ pc = "idle"
    /\ _query_entity("billing_codes_resource", EmptyDict, "BillingCodes",
                  <<[field |-> "isActive", op |-> "eq", value |-> TRUE]>>,
                  <<>>, DefaultMaxRecords)

get_billing_codes_resource_done ==
    /\ pc = "await"
    /\ op = "billing_codes_resource"
    /\ ResourceListDone("BillingCodes", "Error fetching billing codes: ",
                     "# Active Billing Codes (Work Types)")

get_roles_resource ==
    /\ pc = "idle"
    /\ _query_entity("roles_resource", EmptyDict, "Roles",
                  <<[field |-> "isActive", op |-> "eq", value |-> TRUE]>>,
                  <<>>, DefaultMaxRecords)

get_roles_resource_done ==
    /\ pc = "await"
    /\ op = "roles_resource"
    /\ ResourceListDone("Roles", "Error fetching roles: ", "# Active Roles")

\* --- autotask://queues
\* next((f for f in fields if f.get("name") == "queueID"), None)
RECURSIVE FindQueueField(_, _)
FindQueueField(fields, i) ==
    IF i > Len(fields) THEN Null
    ELSE IF GetOpt(fields[i], "name") = Some("queueID") THEN Some(fields[i])
    ELSE FindQueueField(fields, i + 1)

QueuesText(res) ==
    LET queue_field == FindQueueField(Get(res, "fields", <<>>), 1)
    IN  IF IsNone(queue_field) \/ queue_field.v = EmptyDict
        THEN Text(<< <<"Error: queueID field not found in Tickets entity.">> >>)
        ELSE Text(<< <<"# Ticket Queues">> >>
                  \o QueueLines(Get(queue_field.v, "picklistValues", <<>>)))

get_queues_resource ==
    /\ pc = "idle"
    /\ Call("queues_resource", EmptyDict, "GET", <<"Tickets/entityInformation/fields">>,
            EmptyDict)

get_queues_resource_done ==
    /\ pc = "await"
    /\ op = "queues_resource"
    /\ \E r \in FieldsResponses :
          LET res == _make_request("GET", <<"Tickets/entityInformation/fields">>, r)
          IN  IF Escaped(res)
              THEN Finish(r, res, Escapes(res))
              ELSE IF IsError(res)
              THEN Finish(r, res, ErrorText("Error fetching queues: ", res))
              ELSE Finish(r, res, QueuesText(res))

\* ------------------------------------------------------------ specification
\* Every tool handler and every resource handler, and Transport on its own.
Next ==
    \/ _make_request_sent
    \/ _make_request_returned
    \/ autotask_get_ticket
    \/ autotask_get_ticket_done
    \/ autotask_search_tickets
    \/ autotask_search_tickets_done
    \/ autotask_create_ticket
    \/ autotask_create_ticket_done
    \/ autotask_update_ticket
    \/ autotask_update_ticket_fetched
    \/ autotask_update_ticket_done
    \/ autotask_create_ticket_note
    \/ autotask_create_ticket_note_done
    \/ autotask_create_time_entry
    \/ autotask_create_time_entry_done
    \/ autotask_search_companies
    \/ autotask_search_companies_done
    \/ autotask_get_company
    \/ autotask_get_company_done
    \/ autotask_search_contacts
    \/ autotask_search_contacts_done
    \/ autotask_search_resources
    \/ autotask_search_resources_done
    \/ autotask_get_resource
    \/ autotask_get_resource_done
    \/ autotask_get_picklist_values
    \/ autotask_get_picklist_values_done
    \/ autotask_search_roles
    \/ autotask_search_roles_done
    \/ autotask_search_contracts
    \/ autotask_search_contracts_done
    \/ autotask_search_billing_codes
    \/ autotask_search_billing_codes_done
    \/ get_picklist_resource
    \/ get_picklist_resource_done
    \/ get_user_info
    \/ get_user_info_done
    \/ get_billing_codes_resource
    \/ get_billing_codes_resource_done
    \/ get_roles_resource
    \/ get_roles_resource_done
    \/ get_queues_resource
    \/ get_queues_resource_done
    \/ NextCall

Spec == Init /\ [][Next]_vars

\* ------------------------------------------------------------ properties
SearchOps ==
    {"search_tickets", "search_companies", "search_contacts", "search_resources",
     "search_roles", "search_contracts", "search_billing_codes"}

\* The key a search handler returns its items under.
ItemsKey(o) ==
    CASE o = "search_tickets" -> "tickets"
      [] o = "search_companies" -> "companies"
      [] o = "search_contacts" -> "contacts"
      [] o = "search_resources" -> "resources"
      [] o = "search_roles" -> "roles"
      [] o = "search_contracts" -> "contracts"
      [] o = "search_billing_codes" -> "billing_codes"

ResourceOps ==
    {"picklist_resource", "user_info", "billing_codes_resource", "roles_resource",
     "queues_resource"}
\* A tool handler (not a resource handler) is running or has run.
IsTool == op \notin ResourceOps \cup {"none", "_make_request"}

Returned == pc = "done" /\ outcome.kind = "return"
Raised == pc = "done" /\ outcome.kind = "raise"
Range(seq) == { seq[i] : i \in DOMAIN seq }

\* max_results as requested: the caller's value, 50 when left out.
RequestedMax == IF IsUnset(args.max_results) THEN Some(50) ELSE args.max_results

\* C1: every search handler returns at most max_results items, and a count of
\* at most max_results, for every requested max_results (0 and negative
\* values included) and every remote item list.
C1_AtMostMaxResults ==
    (Returned /\ op \in SearchOps /\ IsSome(RequestedMax))
        => /\ Len(outcome.value[ItemsKey(op)]) <= RequestedMax.v
           /\ outcome.value.count <= RequestedMax.v

\* C2: create-time-entry fails with a validation error, and sends nothing,
\* when ticket_id and task_id are both supplied (any integers), when both are
\* absent, and when hours_worked <= 0 or > 24; with exactly one of the two
\* ids supplied and 0 < hours_worked <= 24 it is not rejected locally.
C2_TimeEntryValidation ==
    op = "create_time_entry"
        => LET both == IsSome(args.ticket_id) /\ IsSome(args.task_id)
               neither == IsNone(args.ticket_id) /\ IsNone(args.task_id)
               hours_ok == 0 < args.hours_worked /\ args.hours_worked <= 24
           IN  /\ (both \/ neither \/ ~hours_ok)
                    => (Raised /\ outcome.exc = "ToolError" /\ sent = <<>>)
               /\ (~both /\ ~neither /\ hours_ok) => Len(sent) = 1

\* Remote name of an update-ticket field (spec 4.3, field name mapping).
RemoteName(f) ==
    CASE f = "queue_id" -> "queueID"
      [] f = "assigned_resource_id" -> "assignedResourceID"
      [] f = "assigned_resource_role_id" -> "assignedResourceRoleID"
      [] f = "due_date_time" -> "dueDateTime"
      [] OTHER -> f

NoCriteria ==
    \A k \in DOMAIN args \ {"max_results", "ctx"} :
        \/ IsNone(args[k])
        \/ k = "exclude_completed" /\ IsSome(args[k]) /\ ~args[k].v

\* C4: the filter list a search handler sends is never empty; with no clause
\* derived it is the single catch-all {exist id}, or {eq isActive true} for
\* company and contact search.
C4_FilterNeverEmpty ==
    (op \in SearchOps /\ pc # "idle")
        => LET filter == sent[1].data.filter
           IN  /\ Len(sent) = 1
               /\ sent[1].method = "POST"
               /\ filter # <<>>
               /\ NoCriteria =>
                    filter = IF op \in {"search_companies", "search_contacts"}
                             THEN <<[op |-> "eq", field |-> "isActive", value |-> TRUE]>>
                             ELSE <<[op |-> "exist", field |-> "id"]>>

\* C4 witness: ticket search with nothing supplied but exclude_completed =
\* false, sent with the catch-all clause alone.
C4_Witness ==
    /\ op = "search_tickets"
    /\ pc = "await"
    /\ NoCriteria
    /\ args.exclude_completed = Some(FALSE)
    /\ sent[1].data.filter = <<[op |-> "exist", field |-> "id"]>>

\* What reaches the caller of a failed call: the failure's message and, where
\* the handler has a ctx, the details it reported through ctx.error.
SurfacesStatus(code) ==
    \/ ToString(code) \in Range(outcome.msg)
    \/ ctx_log # <<>> /\ ctx_log[1].extra.status_code = Some(code)
SurfacesText(text) ==
    \/ text \in Range(outcome.msg)
    \/ ctx_log # <<>> /\ ctx_log[1].extra.response_text = Some(text)

\* C5: for every tool and every upstream response with status >= 400 the
\* failure given to the caller carries the status code and the response text
\* of that response; on a 2xx response the tool does not raise.
C5_UpstreamErrorSurfaced ==
    (pc = "done" /\ IsTool /\ response.kind = "http")
        => /\ response.status_code >= 400
                => /\ outcome.kind = "raise"
                   /\ SurfacesStatus(response.status_code)
                   /\ (response.text = "" \/ SurfacesText(response.text))
           /\ (200 <= response.status_code /\ response.status_code < 300)
                => outcome.kind # "raise"

\* C6: update-ticket sends GET Tickets/{ticket_id} first; the PATCH goes out
\* only in answer to a GET result without error; a GET error ends the handler
\* with a raise and no PATCH is ever sent.
C6_GetBeforePatch ==
    /\ [](op = "update_ticket" =>
            /\ Len(sent) \in {1, 2}
            /\ sent[1].method = "GET"
            /\ sent[1].endpoint = <<"Tickets/", ToString(args.ticket_id)>>
            /\ Len(sent) = 2 =>
                 /\ sent[2].method = "PATCH"
                 /\ "error" \notin DOMAIN current
                 /\ "exception" \notin DOMAIN current
            /\ (pc = "done" /\ Len(sent) = 1) => outcome.kind = "raise")
    /\ [][(op = "update_ticket" /\ Len(sent) = 1 /\ Len(sent') = 2)
            => /\ pc = "await"
               /\ response'.kind = "http"
               /\ "error" \notin DOMAIN result'
               /\ current' = result']_vars
    /\ [][(op = "update_ticket" /\ Len(sent) = 1 /\ pc = "await"
             /\ "error" \in DOMAIN result')
            => /\ pc' = "done"
               /\ sent' = sent
               /\ outcome'.kind = "raise"]_vars

\* C6 witness: the GET failed with a 400, the handler raised and only the GET
\* was ever sent.
C6_Witness ==
    /\ op = "update_ticket"
    /\ pc = "done"
    /\ response.status_code = 400
    /\ Len(sent) = 1
    /\ sent[1].method = "GET"
    /\ outcome.kind = "raise"

\* C7: ticket search with exclude_completed true (given, or left at its
\* default) sends the clause {notequal status 5}, whatever else is supplied;
\* with exclude_completed false it sends no notequal clause on status.
C7_ExcludeCompleted ==
    (op = "search_tickets" /\ pc # "idle")
        => LET filter == sent[1].data.filter
           IN  /\ (IsUnset(args.exclude_completed) \/ args.exclude_completed = Some(TRUE))
                    => [op |-> "notequal", field |-> "status", value |-> 5] \in Range(filter)
               /\ args.exclude_completed = Some(FALSE)
                    => \A i \in DOMAIN filter :
                         ~(filter[i].op = "notequal" /\ filter[i].field = "status")

\* C7 witness: exclude_completed left out and status = 5 asked for; both
\* clauses are sent.
C7_Witness ==
    /\ op = "search_tickets"
    /\ pc = "await"
    /\ IsUnset(args.exclude_completed)
    /\ args.status = Some(5)
    /\ sent[1].data.filter = <<[op |-> "eq", field |-> "status", value |-> 5],
                               [op |-> "notequal", field |-> "status", value |-> 5]>>

\* C8: picklist lookup matches the field name case-insensitively; a matching
\* picklist field gives {entity, field, values}; a matching field that is no
\* picklist gives the not-a-picklist error; no match gives the not-found
\* error whose hint lists exactly the names of the picklist fields.  (Where
\* several entries match, the first decides.)
C8_PicklistLookup ==
    (op = "get_picklist_values" /\ pc = "done"
     /\ "error" \notin DOMAIN result /\ "exception" \notin DOMAIN result)
        => LET fields == IF "fields" \in DOMAIN result THEN result.fields ELSE <<>>
               matches == { i \in DOMAIN fields : Lower(fields[i].name) = Lower(args.field) }
               picklists == { i \in DOMAIN fields :
                                "isPickList" \in DOMAIN fields[i] /\ fields[i].isPickList }
               values(i) == IF "picklistValues" \in DOMAIN fields[i]
                            THEN fields[i].picklistValues ELSE <<>>
               hint == SubSeq(outcome.msg, 7, Len(outcome.msg) - 1)
           IN  /\ matches = {} =>
                    /\ outcome.kind = "raise"
                    /\ SubSeq(outcome.msg, 1, 6) =
                         <<"Field '", args.field, "' not found in ", args.entity,
                           ". Available picklist fields: ", "[">>
                    /\ Len(hint) = Cardinality(picklists)
                    /\ Range(hint) = { fields[i].name : i \in picklists }
               /\ (matches # {} /\ matches \subseteq picklists) =>
                    /\ outcome.kind = "return"
                    /\ \E i \in matches :
                         outcome.value = [entity |-> args.entity, field |-> args.field,
                                          values |-> values(i)]
               /\ (matches # {} /\ matches \cap picklists = {}) =>
                    /\ outcome.kind = "raise"
                    /\ outcome.msg = <<"Field '", args.field, "' is not a picklist field.">>
               /\ matches # {} =>
                    \/ /\ outcome.kind = "return"
                       /\ \E i \in matches \cap picklists : outcome.value.values = values(i)
                    \/ /\ outcome.kind = "raise"
                       /\ matches \ picklists # {}
                       /\ outcome.msg = <<"Field '", args.field, "' is not a picklist field.">>

\* C8 witness: STATUS asked for, the metadata has status as its second entry,
\* and its two values are returned.
C8_Witness ==
    /\ op = "get_picklist_values"
    /\ Returned
    /\ args.field = "STATUS"
    /\ Len(result.fields) = 2
    /\ result.fields[1].name = "queueID"
    /\ result.fields[2].name = "status"
    /\ Len(outcome.value.values) = 2

\* C9: create-ticket with only title and company_id issues exactly one POST
\* to Tickets with body {title, companyID, status 1, priority 2, ticketType 1}
\* and nothing else; a result without error is returned as
\* {success, ticket_id: the returned item's id, ticket: the returned item}.
C9_CreateTicketDefaults ==
    (/\ op = "create_ticket"
     /\ \A k \in DOMAIN args \ {"title", "company_id"} : (IsUnset(args[k]) \/ IsNone(args[k]))
     /\ \A k \in {"status", "priority", "ticket_type"} : IsUnset(args[k]))
        => /\ Len(sent) = 1
           /\ sent[1].method = "POST"
           /\ sent[1].endpoint = <<"Tickets">>
           /\ sent[1].data = [title |-> args.title, companyID |-> args.company_id,
                              status |-> Some(1), priority |-> Some(2),
                              ticketType |-> Some(1)]
           /\ (pc = "done" /\ "error" \notin DOMAIN result /\ "exception" \notin DOMAIN result)
                => LET item == IF "item" \in DOMAIN result THEN result.item ELSE result
                   IN  outcome = [kind |-> "return",
                                  value |-> [success |-> TRUE,
                                             ticket_id |-> IF "id" \in DOMAIN item
                                                           THEN Some(item.id) ELSE Null,
                                             ticket |-> item]]

\* C9 witness: {title: "Printer down", company_id: 123} answered with the
\* created item 42.
C9_Witness ==
    /\ op = "create_ticket"
    /\ Returned
    /\ args.title = "Printer down"
    /\ args.company_id = 123
    /\ \A k \in DOMAIN args \ {"title", "company_id"} : (IsUnset(args[k]) \/ IsNone(args[k]))
    /\ IsUnset(args.status)
    /\ IsUnset(args.priority)
    /\ IsUnset(args.ticket_type)
    /\ sent[1].data.companyID = 123
    /\ outcome.value.ticket_id = Some(42)
    /\ outcome.value.ticket.id = 42

\* The words a handler's failure names its operation with.
OpPhrases(o) ==
    CASE o = "get_ticket" -> {"Failed to get ticket "}
      [] o = "search_tickets" -> {"Failed to search tickets: "}
      [] o = "create_ticket" -> {"Failed to create ticket: "}
      [] o = "update_ticket" -> {"Failed to fetch ticket ", "Failed to update ticket "}
      [] o = "create_ticket_note" -> {"Failed to create ticket note: "}
      [] o = "create_time_entry" -> {"Failed to create time entry: "}
      [] o = "search_companies" -> {"Failed to search companies: "}
      [] o = "get_company" -> {"Failed to get company "}
      [] o = "search_contacts" -> {"Failed to search contacts: "}
      [] o = "search_resources" -> {"Failed to search resources: "}
      [] o = "get_resource" -> {"Failed to get resource "}
      [] o = "get_picklist_values" -> {"Failed to get picklist values for "}
      [] o = "search_roles" -> {"Failed to search roles: "}
      [] o = "search_contracts" -> {"Failed to search contracts: "}
      [] o = "search_billing_codes" -> {"Failed to search billing codes: "}

EndsWith(seq, tail) ==
    /\ Len(seq) > Len(tail)
    /\ SubSeq(seq, Len(seq) - Len(tail) + 1, Len(seq)) = tail

\* C10: a Transport error result ends the tool handler at once with a raised
\* failure whose message names the operation and ends with the Transport
\* error message; the handler does not return and sends nothing more.
C10_ErrorsPropagate ==
    /\ []((pc = "done" /\ IsTool /\ "error" \in DOMAIN result)
            => /\ outcome.kind = "raise"
               /\ outcome.exc = "ToolError"
               /\ outcome.msg[1] \in OpPhrases(op)
               /\ EndsWith(outcome.msg, result.error))
    /\ [][(pc = "await" /\ IsTool /\ "error" \in DOMAIN result')
            => (pc' = "done" /\ sent' = sent)]_vars
    /\ [][pc = "done" => (pc' = "idle" /\ sent' = <<>>)]_vars

\* C10 witness: create-time-entry timed out and raised
\* "Failed to create time entry: Request timed out".
C10_Witness ==
    /\ op = "create_time_entry"
    /\ pc = "done"
    /\ response.kind = "timeout"
    /\ Len(sent) = 1
    /\ outcome = [kind |-> "raise", exc |-> "ToolError",
                  msg |-> <<"Failed to create time entry: ", "Request timed out">>]

\* The words a resource handler's error text starts with.
ResourcePrefix(o) ==
    CASE o = "picklist_resource" -> "Error fetching picklist: "
      [] o = "user_info" -> "Error fetching user info: "
      [] o = "billing_codes_resource" -> "Error fetching billing codes: "
      [] o = "roles_resource" -> "Error fetching roles: "
      [] o = "queues_resource" -> "Error fetching queues: "

\* C11: every resource handler answers a Transport error result with returned
\* text of one line that ends with the Transport error message, and raises
\* nothing; the picklist resource returns the one-line not-found or
\* not-a-picklist text for a missing or non-picklist field, and the queues
\* resource returns text (the one-line not-found text when queueID is missing),
\* instead of raising.
C11_ResourcesReturnText ==
    (op \in ResourceOps /\ pc = "done" /\ "exception" \notin DOMAIN result)
        => LET fields == IF "fields" \in DOMAIN result THEN result.fields ELSE <<>>
               matches == { i \in DOMAIN fields : Lower(fields[i].name) = Lower(args.field) }
               picklists == { i \in DOMAIN fields :
                                "isPickList" \in DOMAIN fields[i] /\ fields[i].isPickList }
               queues == { i \in DOMAIN fields : fields[i].name = "queueID" }
           IN  /\ outcome.kind = "return"
               /\ "error" \in DOMAIN result =>
                    /\ Len(outcome.value) = 1
                    /\ outcome.value[1][1] = ResourcePrefix(op)
                    /\ EndsWith(outcome.value[1], result.error)
               /\ (op = "picklist_resource" /\ "error" \notin DOMAIN result) =>
                    /\ matches = {} =>
                         outcome.value = << <<"Field '", args.field, "' not found in ",
                                              args.entity, ".">> >>
                    /\ (matches # {} /\ matches \cap picklists = {}) =>
                         outcome.value = << <<"Field '", args.field,
                                              "' is not a picklist field.">> >>
               /\ (op = "queues_resource" /\ "error" \notin DOMAIN result /\ queues = {}) =>
                    outcome.value = << <<"Error: queueID field not found in Tickets entity.">> >>

\* C11 witness: the picklist resource got a 400 and returned the single line
\* "Error fetching picklist: API returned status 400".
C11_Witness ==
    /\ op = "picklist_resource"
    /\ pc = "done"
    /\ response.status_code = 400
    /\ outcome = [kind |-> "return",
                  value |-> << <<"Error fetching picklist: ", "API returned status ", "400">> >>]

\* The key a create handler returns the new record's id under.
CreatedIdKey(o) ==
    CASE o = "create_ticket" -> "ticket_id"
      [] o = "create_ticket_note" -> "note_id"
      [] o = "create_time_entry" -> "time_entry_id"

\* C12: a create handler (ticket, ticket note, time entry) that returns has put
\* the identifier of the created record, a non-null value, under ticket_id,
\* note_id or time_entry_id, for every Transport result without error (a body
\* without an item key and the empty-body success marker included).
C12_CreatedIdReturned ==
    (Returned /\ op \in {"create_ticket", "create_ticket_note", "create_time_entry"})
        => /\ CreatedIdKey(op) \in DOMAIN outcome.value
           /\ "v" \in DOMAIN outcome.value[CreatedIdKey(op)]

\* Two decimal digits of a month or day number.
TwoDigits(n) == ToString(n \div 10) \o ToString(n % 10)

OptionalBodyFields(o) ==
    IF o = "create_ticket"
    THEN {"description", "status", "priority", "queue_id", "assigned_resource_id",
          "assigned_resource_role_id", "due_date_time", "ticket_type"}
    ELSE {"internal_notes", "billing_code_id", "contract_id", "hours_to_bill",
          "is_non_billable", "show_on_invoice", "start_date_time", "end_date_time"}

\* Remote name of a field (spec 4.3, field name mapping).
RemoteField(f) ==
    CASE f = "queue_id" -> "queueID"
      [] f = "assigned_resource_id" -> "assignedResourceID"
      [] f = "assigned_resource_role_id" -> "assignedResourceRoleID"
      [] f = "due_date_time" -> "dueDateTime"
      [] f = "ticket_type" -> "ticketType"
      [] f = "internal_notes" -> "internalNotes"
      [] f = "billing_code_id" -> "billingCodeID"
      [] f = "contract_id" -> "contractID"
      [] f = "hours_to_bill" -> "hoursToBill"
      [] f = "is_non_billable" -> "isNonBillable"
      [] f = "show_on_invoice" -> "showOnInvoice"
      [] f = "start_date_time" -> "startDateTime"
      [] f = "end_date_time" -> "endDateTime"
      [] OTHER -> f

\* The value the input model holds for field f: the caller's, or the Field
\* default (status 1, priority 2, ticket_type 1) where the caller left it out.
ModelValue(f) ==
    IF "unset" \in DOMAIN args[f]
    THEN [v |-> IF f = "priority" THEN 2 ELSE 1]
    ELSE args[f]

\* C14: the body of create-ticket and of create-time-entry has the remote key
\* of an optional field exactly when the field's value is not null (0, false
\* and "" included), holding that value; a null field (status, priority or
\* ticket_type set to null included) contributes no key.
C14_OptionalFieldsCopied ==
    (op \in {"create_ticket", "create_time_entry"} /\ sent # <<>>)
        => LET body == sent[1].data
           IN  \A f \in OptionalBodyFields(op) :
                 LET k == RemoteField(f)
                     val == ModelValue(f)
                 IN  /\ "null" \in DOMAIN val => k \notin DOMAIN body
                     /\ "v" \in DOMAIN val =>
                          /\ k \in DOMAIN body
                          /\ body[k] = (IF f \in {"status", "priority", "ticket_type"}
                                        THEN val ELSE val.v)

\* C15: an invocation issues at most one HTTP request, update-ticket at most
\* two (the GET, then the PATCH); each Transport call puts exactly one request
\* on the wire, none for an unsupported method; once a call has ended in an
\* error, a timeout or a connection failure nothing more is sent.
C15_OneAttemptPerCall ==
    /\ [](/\ Len(sent) <= (IF op = "update_ticket" THEN 2 ELSE 1)
          /\ Len(sent) = 2 => (sent[1].method = "GET" /\ sent[2].method = "PATCH")
          /\ pc = "await" => Len(sent) >= 1)
    /\ [][pc' = "await" => Len(sent') = Len(sent) + 1]_vars
    /\ [][(pc = "idle" /\ pc' = "done")
            => /\ sent' = <<>>
               /\ "error" \in DOMAIN result' => op' = "_make_request"]_vars
    /\ [][(pc = "await" /\ (\/ "error" \in DOMAIN result'
                            \/ response'.kind \in {"timeout", "request_error"}))
            => (sent' = sent /\ pc' = "done")]_vars
    /\ [][pc = "done" => sent' = <<>>]_vars

\* C15 witness: update-ticket sent its GET and its PATCH, the PATCH timed out
\* and the handler ended with those two requests.
C15_Witness ==
    /\ op = "update_ticket"
    /\ pc = "done"
    /\ Len(sent) = 2
    /\ response.kind = "timeout"
    /\ outcome.kind = "raise"

\* C16: Transport gives every completed HTTP call exactly one outcome: status
\* >= 400, an error result with the status code, whatever the body; status
\* < 400 with a non-empty parseable body, the parsed body itself; status < 400
\* with an empty body, the success marker; status < 400 with a non-empty body
\* that does not parse, the parse-failure error result with the raw text; a
\* timeout, the timeout error result; any other transport failure, the
\* request-failed error result; the last two without a status code.
C16_TransportClassifies ==
    response.kind # "none"
        => LET r == response
               ok == r.kind = "http" /\ r.status_code < 400
           IN  /\ "exception" \notin DOMAIN result
               /\ (r.kind = "http" /\ r.status_code >= 400) =>
                    /\ "error" \in DOMAIN result
                    /\ result.error = <<"API returned status ", ToString(r.status_code)>>
                    /\ result.status_code = r.status_code
               /\ (ok /\ r.text # "" /\ r.json.type # "invalid") => result = r.json.v
               /\ (ok /\ r.text = "") => result = [success |-> TRUE]
               /\ (ok /\ r.text # "" /\ r.json.type = "invalid") =>
                    result = [error |-> <<"Failed to parse API response">>,
                              raw_response |-> r.text]
               /\ r.kind = "timeout" => result = [error |-> <<"Request timed out">>]
               /\ r.kind = "request_error" =>
                    result = [error |-> <<"Request failed: ", r.msg>>]

\* Characters of response text the Transport's error log keeps (response.text[:500]).
ErrorTextLimit == 500

\* C17: for every upstream response with status >= 400 the Transport error
\* result carries the status code, the resolved URL, the method, and the
\* response text cut to a bounded length, never the whole of a longer body.
C17_ErrorResultFields ==
    (response.kind = "http" /\ response.status_code >= 400)
        => /\ result.status_code = response.status_code
           /\ result.url = <<"https://webservices14.autotask.net/ATServicesRest/v1.0", "/">>
                           \o sent[Len(sent)].endpoint
           /\ result.method = (IF op = "_make_request" THEN args.method
                               ELSE sent[Len(sent)].method)
           /\ Len(result.response_text) <= ErrorTextLimit
           /\ Len(response.text) <= ErrorTextLimit => result.response_text = response.text

\* The search handlers that take is_active.
ActiveOps ==
    {"search_companies", "search_contacts", "search_resources", "search_roles",
     "search_contracts", "search_billing_codes"}

\* C18: a search handler that takes is_active sends {eq isActive true} when
\* is_active is left at its default, {eq isActive false} when it is false, and
\* no clause on isActive at all when it is null, whatever the other criteria
\* (none included).
C18_IsActiveFilter ==
    (op \in ActiveOps /\ pc # "idle")
        => LET filter == sent[1].data.filter
           IN  /\ ("unset" \in DOMAIN args.is_active \/ args.is_active = [v |-> TRUE])
                    => [op |-> "eq", field |-> "isActive", value |-> TRUE] \in Range(filter)
               /\ args.is_active = [v |-> FALSE]
                    => [op |-> "eq", field |-> "isActive", value |-> FALSE] \in Range(filter)
               /\ "null" \in DOMAIN args.is_active
                    => \A i \in DOMAIN filter : filter[i].field # "isActive"

\* Remote field a search criterion is matched against.
CriterionField(f) ==
    CASE f = "company_id" -> "companyID"
      [] f = "assigned_resource_id" -> "assignedResourceID"
      [] f = "queue_id" -> "queueID"
      [] f = "title_contains" -> "title"
      [] f = "name_contains" -> "companyName"
      [] f = "email_contains" -> "emailAddress"
      [] f = "first_name" -> "firstName"
      [] f = "last_name" -> "lastName"
      [] f = "contract_name" -> "contractName"
      [] OTHER -> f

\* eq for ids and codes, contains for text.
CriterionOp(f) ==
    IF f \in {"company_id", "status", "priority", "assigned_resource_id", "queue_id"}
    THEN "eq" ELSE "contains"

\* C19: for every search handler and every optional criterion, the filter list
\* has exactly one clause on the criterion's remote field (eq for ids,
\* contains for text) with the caller's value when the criterion is not null
\* (0 and "" included), and no such clause when it is null.
C19_CriterionClauses ==
    (op \in SearchOps /\ pc # "idle")
        => LET filter == sent[1].data.filter
           IN  \A f \in DOMAIN args \ {"max_results", "ctx", "is_active", "exclude_completed"} :
                 LET hits == { i \in DOMAIN filter :
                                 /\ filter[i].field = CriterionField(f)
                                 /\ filter[i].op = CriterionOp(f) }
                 IN  IF "v" \in DOMAIN args[f]
                     THEN /\ Cardinality(hits) = 1
                          /\ \A i \in hits : filter[i].value = args[f].v
                     ELSE hits = {}

\* C20: every body sent to TimeEntries has exactly one of the keys ticketID
\* and taskID, and the key holds the non-null id the caller gave for that
\* parent.
C20_ExactlyOneParent ==
    (op = "create_time_entry" /\ sent # <<>>)
        => LET body == sent[1].data
               ticket == "ticketID" \in DOMAIN body
               task == "taskID" \in DOMAIN body
           IN  /\ sent[1].endpoint = <<"TimeEntries">>
               /\ ticket \/ task
               /\ ~(ticket /\ task)
               /\ ticket => ("v" \in DOMAIN args.ticket_id /\ body.ticketID = args.ticket_id.v)
               /\ task => ("v" \in DOMAIN args.task_id /\ body.taskID = args.task_id.v)

\* C20 witness: ticket 10 given and no task; the body sent has ticketID 10 and
\* no taskID.
C20_Witness ==
    /\ op = "create_time_entry"
    /\ pc = "await"
    /\ args.ticket_id = Some(10)
    /\ args.task_id = Null
    /\ args.hours_worked = 1
    /\ sent[1].data.ticketID = 10
    /\ "taskID" \notin DOMAIN sent[1].data

\* The handlers that go through the Query Builder.
QueryOps == SearchOps \cup {"billing_codes_resource", "roles_resource"}

\* C21: every search handler and query-based resource handler sends one POST
\* whose body is exactly {MaxRecords: 50, filter}, without IncludeFields,
\* whatever max_results is; a search whose remote list respects MaxRecords
\* returns at most 50 items.
C21_MaxRecordsFixed ==
    (op \in QueryOps /\ pc # "idle")
        => LET body == sent[1].data
           IN  /\ Len(sent) = 1
               /\ sent[1].method = "POST"
               /\ DOMAIN body = {"MaxRecords", "filter"}
               /\ body.MaxRecords = 50
               /\ (/\ pc = "done"
                   /\ outcome.kind = "return"
                   /\ op \in SearchOps
                   /\ "items" \in DOMAIN result
                   /\ Len(result.items) <= body.MaxRecords)
                    => /\ outcome.value.count <= 50
                       /\ Len(outcome.value[ItemsKey(op)]) <= 50

\* C21 witness: ticket search with max_results 2 was sent with MaxRecords 50,
\* the remote answered with a full page of 50 items and 2 were returned.
C21_Witness ==
    /\ op = "search_tickets"
    /\ pc = "done"
    /\ args.max_results = Some(2)
    /\ sent[1].data.MaxRecords = 50
    /\ outcome.kind = "return"
    /\ "items" \in DOMAIN result
    /\ Len(result.items) = 50
    /\ outcome.value.count = 2

\* A tool handler has ended on a result that Transport returned.
ToolAnswered ==
    /\ IsTool
    /\ pc = "done"
    /\ response.kind # "none"
    /\ "exception" \notin DOMAIN result

\* The key a handler returns the unwrapped item under.
ItemKey(o) ==
    CASE o \in {"create_ticket", "update_ticket"} -> "ticket"
      [] o = "create_ticket_note" -> "note"
      [] o = "create_time_entry" -> "time_entry"

\* C22 as stated: every tool handler raises exactly when the Transport result
\* has a top-level error key, and treats every result without it as success.
C22_RaisesIffErrorKey_EveryTool ==
    ToolAnswered => (outcome.kind = "raise" <=> "error" \in DOMAIN result)

\* C22 (amended): a tool handler raises its Transport failure exactly when the
\* Transport result has a top-level error key, whatever the HTTP status; a
\* result without that key is taken as success, item defaulting to the whole
\* result and items to the empty list; only picklist lookup may still raise on
\* such a result, and then its own field-not-found or not-a-picklist failure.
C22_RaisesIffErrorKey ==
    ToolAnswered
        => LET item == IF "item" \in DOMAIN result THEN result.item ELSE result
           IN  /\ "error" \in DOMAIN result =>
                    /\ outcome.kind = "raise"
                    /\ outcome.msg[1] \in OpPhrases(op)
                    /\ EndsWith(outcome.msg, result.error)
               /\ ("error" \notin DOMAIN result /\ op # "get_picklist_values") =>
                    /\ outcome.kind = "return"
                    /\ op \in {"get_ticket", "get_company", "get_resource"} =>
                         outcome.value = item
                    /\ op \in {"create_ticket", "update_ticket", "create_ticket_note",
                               "create_time_entry"} =>
                         outcome.value[ItemKey(op)] = item
                    /\ (op \in SearchOps /\ "items" \notin DOMAIN result) =>
                         (outcome.value.count = 0 /\ outcome.value[ItemsKey(op)] = <<>>)
               /\ ("error" \notin DOMAIN result /\ op = "get_picklist_values"
                   /\ outcome.kind = "raise") =>
                    (outcome.msg[1] = "Field '" /\ outcome.msg[1] \notin OpPhrases(op))

\* C22 witness: get-ticket answered with status 200 and a body holding a
\* top-level error key; the handler raised with that error.
C22_Witness ==
    /\ op = "get_ticket"
    /\ pc = "done"
    /\ response.status_code = 200
    /\ result = [error |-> <<"remote fault">>]
    /\ outcome.kind = "raise"
    /\ outcome.msg[Len(outcome.msg)] = "remote fault"

====
